---- MODULE Spec2Model ----
(***************************************************************************)
(* The HTTP route layer of the scholarship API (src/api/routes.py) and the *)
(* two controllers it delegates to.  Every handler of routes.py is one     *)
(* `return [await] Controller.method(args)`; the controllers themselves    *)
(* (controller/*.py, core/models.py) are not part of the sources at hand   *)
(* and are modelled from the specification's collaborator interfaces.      *)
(*                                                                         *)
(* A request's only effect is its single collaborator call, so concurrent  *)
(* requests interleave at the granularity of these calls: every            *)
(* interleaving is some order of the route actions below.                  *)
(***************************************************************************)
EXTENDS Integers, Sequences, FiniteSets, TLC

VARIABLES
    applications,   \* the application store: sequence of Application, index = id
    tasks,          \* the task store: sequence of Task, index = id
    calls,          \* collaborator calls made while serving the last request
    last,           \* the last exchange served: [req, resp]
    prev            \* the exchange served just before `last`

vars == <<applications, tasks, calls, last, prev>>

---------------------------------------------------------------------------
(* Bounds of the model *)

MaxApplications == 2      \* applications that may be created
MaxTasks == 2             \* tasks that may be created
NumScholarships == 102    \* size of the scholarship catalogue (> 100)

(* Program constants *)

DefaultLimit == 100       \* routes.py:10  limit: int = 100
SearchK == 10             \* routes.py:35  k=10
DocumentedMaxLimit == 100 \* routes.py:14  "Limit the result to 100 items"

---------------------------------------------------------------------------
(* Data shapes.  An optional value is a sequence of length <= 1. *)

Countries == <<"Sweden", "Norway", "Japan">>
AllCountries == {Countries[c] : c \in DOMAIN Countries} \cup {"Iceland"}
Fields == <<"physics", "law">>

\* The catalogue owned by the scholarship collaborator, in rank order.  Three
\* countries have more scholarships than a search returns; "Iceland" has
\* fewer (every 40th record).
Scholarship(i) ==
    [id |-> i,
     country |-> IF i % 40 = 0 THEN "Iceland"
                 ELSE Countries[(i % Len(Countries)) + 1],
     field |-> Fields[(i % Len(Fields)) + 1]]

Catalogue == [i \in 1..NumScholarships |-> Scholarship(i)]

ScholarshipResolvable(sid) == sid \in 1..NumScholarships

NoApplicationData == [scholarship_id |-> <<>>, applicant |-> <<>>]
NoTaskData == [application_id |-> <<>>, start_date |-> <<>>, end_date |-> <<>>]

\* Identifiers a client may put in a path or in a TaskCreate: every id the
\* stores can hold and one more that is never assigned.
ApplicationIds == 1..(MaxApplications + 1)
TaskIds == 1..(MaxTasks + 1)

\* Request bodies a client may send to POST /applications: two valid
\* payloads, one naming a scholarship the collaborator cannot resolve, and
\* one with a required field missing.
ApplicationBodies ==
    { [scholarship_id |-> <<s>>, applicant |-> <<"ana">>] : s \in {1, 2, 0} }
    \cup { [scholarship_id |-> <<1>>, applicant |-> <<>>] }

\* Application references a client may put in a TaskCreate: the first id the
\* store assigns (known once that application is created, unknown before)
\* and the id that is never assigned.
TaskApplicationRefs == {1, MaxApplications + 1}

\* Request bodies a client may send to POST /tasks.
TaskBodies ==
    { [application_id |-> <<a>>, start_date |-> <<1>>, end_date |-> <<2>>] :
        a \in TaskApplicationRefs }
    \cup { [application_id |-> <<>>, start_date |-> <<1>>, end_date |-> <<2>>] }

\* Values of the `limit` query parameter: omitted, negative, zero, small,
\* and above the documented maximum.
LimitParams == { <<>>, <<-1>>, <<0>>, <<5>>, <<101>> }

\* Values of the `query` query parameter: omitted, two countries, a field.
QueryParams == { <<>>, <<"Sweden">>, <<"Iceland">>, <<"physics">> }

NoRequest ==
    [op |-> "none", limit |-> <<>>, query |-> <<>>,
     application_data |-> NoApplicationData, task_data |-> NoTaskData,
     id |-> 0]

Response(kind, s, a, t) ==
    [kind |-> kind, scholarships |-> s, applications |-> a, tasks |-> t]

NoResponse == Response("none", <<>>, <<>>, <<>>)
NoExchange == [req |-> NoRequest, resp |-> NoResponse]

\* Arguments of a collaborator call; a method reads only its own.
NoArgs ==
    [limit |-> 0, query |-> "", k |-> 0,
     application_data |-> NoApplicationData, task_data |-> NoTaskData,
     id |-> 0]

Min(a, b) == IF a <= b THEN a ELSE b

---------------------------------------------------------------------------
(* The collaborators.  An outcome is the response the call produces and    *)
(* the stores it leaves behind.                                            *)

Outcome(resp, a, t) == [resp |-> resp, applications |-> a, tasks |-> t]

\* Scholarship provider: list(limit) -> [Scholarship], length <= limit.
ScholarshipController_get_all_scholarships(limit) ==
    Outcome(Response("ok",
                     SubSeq(Catalogue, 1, Min(limit, Len(Catalogue))),
                     <<>>, <<>>),
            applications, tasks)

\* Scholarship provider: search(query, k) -> the k best-ranked records that
\* are relevant to the query (a country-named query: that country's only).
ScholarshipController_search_scholarship(query, k) ==
    LET relevant == SelectSeq(Catalogue,
                              LAMBDA s : s.country = query \/ s.field = query)
    IN Outcome(Response("ok",
                        SubSeq(relevant, 1, Min(k, Len(relevant))),
                        <<>>, <<>>),
               applications, tasks)

\* Application provider: createApplication(data) -> Application.  The
\* identifier is assigned here; a payload whose scholarship cannot be
\* resolved is not accepted.
ApplicationController_create_application(data) ==
    IF ~ScholarshipResolvable(data.scholarship_id[1])
    THEN Outcome(Response("collaborator_error", <<>>, <<>>, <<>>),
                 applications, tasks)
    ELSE LET app == [id |-> Len(applications) + 1,
                     scholarship_id |-> data.scholarship_id[1],
                     applicant |-> data.applicant[1],
                     status |-> "created"]
         IN Outcome(Response("ok", <<>>, <<app>>, <<>>),
                    Append(applications, app), tasks)

\* Application provider: listApplications() -> [Application].
ApplicationController_list_applications ==
    Outcome(Response("ok", <<>>, applications, <<>>), applications, tasks)

\* Application provider: getApplication(id) -> Application | NotFound.
ApplicationController_get_application_by_id(application_id) ==
    IF application_id \in DOMAIN applications
    THEN Outcome(Response("ok", <<>>, <<applications[application_id]>>, <<>>),
                 applications, tasks)
    ELSE Outcome(Response("not_found", <<>>, <<>>, <<>>), applications, tasks)

\* Task provider: createTask(data) -> Task.  No linkage to the application
\* store is enforced: the reference is stored as given.
ApplicationController_create_task(data) ==
    LET task == [id |-> Len(tasks) + 1,
                 application_id |-> data.application_id[1],
                 start_date |-> data.start_date[1],
                 end_date |-> data.end_date[1]]
    IN Outcome(Response("ok", <<>>, <<>>, <<task>>),
               applications, Append(tasks, task))

\* Task provider: getTask(id) -> Task | NotFound.
ApplicationController_get_task_by_id(task_id) ==
    IF task_id \in DOMAIN tasks
    THEN Outcome(Response("ok", <<>>, <<>>, <<tasks[task_id]>>),
                 applications, tasks)
    ELSE Outcome(Response("not_found", <<>>, <<>>, <<>>), applications, tasks)

\* The collaborator method a call names, applied to the call's arguments.
Collaborator(call) ==
    CASE call.method = "ScholarshipController.get_all_scholarships" ->
            ScholarshipController_get_all_scholarships(call.args.limit)
      [] call.method = "ScholarshipController.search_scholarship" ->
            ScholarshipController_search_scholarship(call.args.query, call.args.k)
      [] call.method = "ApplicationController.create_application" ->
            ApplicationController_create_application(call.args.application_data)
      [] call.method = "ApplicationController.list_applications" ->
            ApplicationController_list_applications
      [] call.method = "ApplicationController.get_application_by_id" ->
            ApplicationController_get_application_by_id(call.args.id)
      [] call.method = "ApplicationController.create_task" ->
            ApplicationController_create_task(call.args.task_data)
      [] call.method = "ApplicationController.get_task_by_id" ->
            ApplicationController_get_task_by_id(call.args.id)

---------------------------------------------------------------------------
(* Request binding done by the framework from the handlers' signatures.    *)

\* Variant: the default of `limit` mistyped.
BindLimit_default1000(q) == IF q = <<>> THEN 1000 ELSE q[1]

\* limit: int = 100 -- an omitted parameter takes the default; no bound
\* (ge/le) is declared, so every integer is passed on.
BindLimit(q) == IF q = <<>> THEN DefaultLimit ELSE q[1]

\* Variant: `query` declared optional (Query(None)).
BindQuery_optional(q) == [ok |-> TRUE, value |-> IF q # <<>> THEN q[1] ELSE ""]

\* query: str = Query(...) -- required.
BindQuery(q) == [ok |-> q # <<>>, value |-> IF q # <<>> THEN q[1] ELSE ""]

\* application_data: ApplicationCreate -- the body must have the shape.
BindApplicationCreate(body) ==
    [ok |-> body.scholarship_id # <<>> /\ body.applicant # <<>>, value |-> body]

\* task_data: TaskCreate -- the body must have the shape.
BindTaskCreate(body) ==
    [ok |-> body.application_id # <<>> /\ body.start_date # <<>>
            /\ body.end_date # <<>>,
     value |-> body]

---------------------------------------------------------------------------
(* The handlers: the collaborator call each one makes.                     *)

Call(method, args) == [method |-> method, args |-> args]

\* Variant: the handler clamps `limit` to the documented maximum.
get_all_scholarships_clamped(limit) ==
    Call("ScholarshipController.get_all_scholarships",
         [NoArgs EXCEPT !.limit = Min(limit, DocumentedMaxLimit)])

get_all_scholarships(limit) ==
    Call("ScholarshipController.get_all_scholarships",
         [NoArgs EXCEPT !.limit = limit])

\* Variant: another k.
search_scholarship_k50(query) ==
    Call("ScholarshipController.search_scholarship",
         [NoArgs EXCEPT !.query = query, !.k = 50])

search_scholarship(query) ==
    Call("ScholarshipController.search_scholarship",
         [NoArgs EXCEPT !.query = query, !.k = SearchK])

create_application(application_data) ==
    Call("ApplicationController.create_application",
         [NoArgs EXCEPT !.application_data = application_data])

list_applications ==
    Call("ApplicationController.list_applications", NoArgs)

\* Variant: copied from get_task_by_id without renaming the delegate.
get_application_by_id_as_task(application_id) ==
    Call("ApplicationController.get_task_by_id",
         [NoArgs EXCEPT !.id = application_id])

get_application_by_id(application_id) ==
    Call("ApplicationController.get_application_by_id",
         [NoArgs EXCEPT !.id = application_id])

\* Variant: the handler rebuilds the payload and mixes up two fields.
create_task_mixed_fields(task_data) ==
    Call("ApplicationController.create_task",
         [NoArgs EXCEPT !.task_data =
             [task_data EXCEPT !.application_id = task_data.end_date]])

create_task(task_data) ==
    Call("ApplicationController.create_task",
         [NoArgs EXCEPT !.task_data = task_data])

\* Variant: copied from get_application_by_id without renaming the delegate.
get_task_by_id_as_application(task_id) ==
    Call("ApplicationController.get_application_by_id",
         [NoArgs EXCEPT !.id = task_id])

get_task_by_id(task_id) ==
    Call("ApplicationController.get_task_by_id",
         [NoArgs EXCEPT !.id = task_id])

---------------------------------------------------------------------------
(* Serving one request.                                                    *)

\* The handler runs: its call is made once, the stores become what the call
\* leaves, and the call's result is the response.
Serve(req, call) ==
    LET out == Collaborator(call)
    IN /\ Len(out.applications) <= MaxApplications
       /\ Len(out.tasks) <= MaxTasks
       /\ applications' = out.applications
       /\ tasks' = out.tasks
       /\ calls' = <<[call |-> call, resp |-> out.resp]>>
       /\ prev' = last
       /\ last' = [req |-> req, resp |-> out.resp]

\* The request fails binding: the handler does not run.
Reject(req) ==
    /\ calls' = <<>>
    /\ prev' = last
    /\ last' = [req |-> req,
                resp |-> Response("validation_error", <<>>, <<>>, <<>>)]
    /\ UNCHANGED <<applications, tasks>>

Init ==
    /\ applications = <<>>
    /\ tasks = <<>>
    /\ calls = <<>>
    /\ last = NoExchange
    /\ prev = NoExchange

\* GET /
GetAllScholarships ==
    \E q \in LimitParams :
        LET req == [NoRequest EXCEPT !.op = "GET /", !.limit = q]
        IN /\ Serve(req, get_all_scholarships(BindLimit(q)))

\* GET /search
SearchScholarship ==
    \E q \in QueryParams :
        LET req == [NoRequest EXCEPT !.op = "GET /search", !.query = q]
            b == BindQuery(q)
        IN IF b.ok THEN Serve(req, search_scholarship(b.value))
                   ELSE Reject(req)

\* POST /applications
CreateApplication ==
    \E body \in ApplicationBodies :
        LET req == [NoRequest EXCEPT !.op = "POST /applications",
                                     !.application_data = body]
            b == BindApplicationCreate(body)
        IN IF b.ok THEN Serve(req, create_application(b.value))
                   ELSE Reject(req)

\* GET /applications
ListApplications ==
    LET req == [NoRequest EXCEPT !.op = "GET /applications"]
    IN /\ Serve(req, list_applications)

\* GET /applications/{application_id}
GetApplicationById ==
    \E id \in ApplicationIds :
        LET req == [NoRequest EXCEPT
                        !.op = "GET /applications/{application_id}", !.id = id]
        IN /\ Serve(req, get_application_by_id(id))

\* POST /tasks
CreateTask ==
    \E body \in TaskBodies :
        LET req == [NoRequest EXCEPT !.op = "POST /tasks", !.task_data = body]
            b == BindTaskCreate(body)
        IN IF b.ok THEN Serve(req, create_task(b.value))
                   ELSE Reject(req)

\* GET /tasks/{task_id}
GetTaskById ==
    \E id \in TaskIds :
        LET req == [NoRequest EXCEPT !.op = "GET /tasks/{task_id}", !.id = id]
        IN /\ Serve(req, get_task_by_id(id))

\* The seven routes of routes.py.
Routes ==
    \/ GetAllScholarships
    \/ SearchScholarship
    \/ CreateApplication
    \/ ListApplications
    \/ GetApplicationById
    \/ CreateTask
    \/ GetTaskById

\* A route the router does not have: DELETE of the newest application.
DeleteApplication ==
    /\ applications # <<>>
    /\ applications' = SubSeq(applications, 1, Len(applications) - 1)
    /\ calls' = <<>>
    /\ prev' = last
    /\ last' = [req |-> [NoRequest EXCEPT !.op = "DELETE /applications/{application_id}",
                                          !.id = Len(applications)],
                resp |-> Response("ok", <<>>, <<>>, <<>>)]
    /\ UNCHANGED tasks

\* A route the router does not have: PUT changing an application's status.
UpdateApplication ==
    /\ applications # <<>>
    /\ applications[1].status = "created"
    /\ applications' = [applications EXCEPT ![1].status = "withdrawn"]
    /\ calls' = <<>>
    /\ prev' = last
    /\ last' = [req |-> [NoRequest EXCEPT !.op = "PUT /applications/{application_id}",
                                          !.id = 1],
                resp |-> Response("ok", <<>>, <<applications'[1]>>, <<>>)]
    /\ UNCHANGED tasks

\* Variants of the router with one more route.
router_with_delete == Routes \/ DeleteApplication
router_with_update == Routes \/ UpdateApplication

\* The routes registered on the router: the seven above and no other.
router == Routes

Next == router

Spec == Init /\ [][Next]_vars

---------------------------------------------------------------------------
(* Properties                                                              *)

IsOp(x, op) == x.req.op = op

\* What GET /applications would return in the current state.
ListedApplications == ApplicationController_list_applications.resp.applications

\* `last` is a GET /applications/{i} served right after a POST /applications
\* that returned an Application with identifier i.
CreateThenGet ==
    /\ IsOp(prev, "POST /applications")
    /\ prev.resp.kind = "ok"
    /\ IsOp(last, "GET /applications/{application_id}")
    /\ last.req.id = prev.resp.applications[1].id

\* C1: a GET /applications/{i} issued immediately after the POST
\* /applications that returned identifier i returns the record the create
\* returned, and not a not-found.
C1_CreateThenGetEquivalent ==
    CreateThenGet =>
        /\ last.resp.kind = "ok"
        /\ last.resp.applications = prev.resp.applications

\* The second application of the store is created and fetched.
C1_Witness ==
    /\ CreateThenGet
    /\ last.resp.kind = "ok"
    /\ last.req.id = MaxApplications
    /\ Len(tasks) > 0

\* The request fails shape validation: a required field or parameter is
\* missing.
ShapeInvalid(req) ==
    \/ /\ req.op = "POST /applications"
       /\ \/ req.application_data.scholarship_id = <<>>
          \/ req.application_data.applicant = <<>>
    \/ /\ req.op = "POST /tasks"
       /\ \/ req.task_data.application_id = <<>>
          \/ req.task_data.start_date = <<>>
          \/ req.task_data.end_date = <<>>
    \/ /\ req.op = "GET /search"
       /\ req.query = <<>>

\* C2: a request that fails shape validation gets a validation error, makes
\* no collaborator call, and leaves what GET /applications returns (and the
\* task store) as it was before the request.
C2_RejectedBeforeCollaborator ==
    /\ [](ShapeInvalid(last.req) =>
            /\ last.resp.kind = "validation_error"
            /\ calls = <<>>)
    /\ [][ShapeInvalid(last'.req) =>
            /\ ListedApplications' = ListedApplications
            /\ tasks' = tasks]_vars

\* A POST /applications with a missing field was rejected on a non-empty
\* store, right after a GET /search without `query` was rejected.
C2_Witness ==
    /\ ShapeInvalid(last.req) /\ IsOp(last, "POST /applications")
    /\ ShapeInvalid(prev.req) /\ IsOp(prev, "GET /search")
    /\ last.resp.kind = "validation_error"
    /\ calls = <<>>
    /\ Len(applications) > 0

\* C3: a GET by an identifier that no stored application (task) has yields
\* not-found, never a server error, the empty store included.
C3_UnknownIdNotFound ==
    /\ (IsOp(last, "GET /applications/{application_id}")
        /\ \A i \in DOMAIN applications : applications[i].id # last.req.id)
       => last.resp.kind = "not_found"
    /\ (IsOp(last, "GET /tasks/{task_id}")
        /\ \A i \in DOMAIN tasks : tasks[i].id # last.req.id)
       => last.resp.kind = "not_found"

\* An unknown task id is fetched while an application with the same id
\* exists, right after an unknown application id was fetched.
C3_Witness ==
    /\ IsOp(last, "GET /tasks/{task_id}")
    /\ last.req.id = 1
    /\ tasks = <<>>
    /\ Len(applications) > 0
    /\ last.resp.kind = "not_found"
    /\ IsOp(prev, "GET /applications/{application_id}")
    /\ prev.resp.kind = "not_found"

\* C4 as stated: for every integer limit supplied to GET / the returned
\* sequence has length at most limit; with limit omitted the handler passes
\* 100 and at most 100 records are returned.
C4_LengthAtMostLimit ==
    IsOp(last, "GET /") =>
        IF last.req.limit = <<>>
        THEN /\ calls[1].call.args.limit = 100
             /\ Len(last.resp.scholarships) <= 100
        ELSE last.resp.kind = "ok" =>
                Len(last.resp.scholarships) <= last.req.limit[1]

\* C4 amended: the same for every non-negative limit; a negative limit
\* cannot bound the length of a sequence.
C4_LengthAtMostNonNegativeLimit ==
    IsOp(last, "GET /") =>
        IF last.req.limit = <<>>
        THEN /\ calls[1].call.args.limit = 100
             /\ Len(last.resp.scholarships) <= 100
        ELSE (last.resp.kind = "ok" /\ last.req.limit[1] >= 0) =>
                Len(last.resp.scholarships) <= last.req.limit[1]

\* limit=5 cut the catalogue to 5 records, right after a request without
\* limit returned 100 of the more than 100 records.
C4_Witness ==
    /\ IsOp(last, "GET /")
    /\ last.req.limit = <<5>>
    /\ Len(last.resp.scholarships) = 5
    /\ IsOp(prev, "GET /")
    /\ prev.req.limit = <<>>
    /\ Len(prev.resp.scholarships) = 100
    /\ Len(Catalogue) > 100

\* C5: whatever the limit parameter, the value handed to the collaborator
\* and the number of scholarships returned never exceed 100.
C5_LimitCappedAt100 ==
    IsOp(last, "GET /") =>
        /\ \A i \in DOMAIN calls :
              calls[i].call.args.limit <= DocumentedMaxLimit
        /\ Len(last.resp.scholarships) <= DocumentedMaxLimit

CreateTaskThenGet ==
    /\ IsOp(prev, "POST /tasks")
    /\ prev.resp.kind = "ok"
    /\ IsOp(last, "GET /tasks/{task_id}")
    /\ last.req.id = prev.resp.tasks[1].id

\* C7: a POST /tasks whose payload names an existing application returns a
\* Task owned by that application; the Task is stored as returned and never
\* changes, a GET /tasks/{id} returns the stored Task, and so a later GET for
\* the returned id shows the same owning application.
C7_TaskOwnerMatchesInput ==
    /\ []((/\ IsOp(last, "POST /tasks")
           /\ ~ShapeInvalid(last.req)
           /\ last.req.task_data.application_id[1] \in DOMAIN applications)
          => /\ last.resp.kind = "ok"
             /\ Len(last.resp.tasks) = 1
             /\ last.resp.tasks[1].application_id
                    = last.req.task_data.application_id[1]
             /\ tasks[last.resp.tasks[1].id] = last.resp.tasks[1])
    /\ []((IsOp(last, "GET /tasks/{task_id}") /\ last.resp.kind = "ok")
          => last.resp.tasks = <<tasks[last.req.id]>>)
    /\ [](CreateTaskThenGet
          => /\ last.resp.kind = "ok"
             /\ last.resp.tasks[1].application_id
                    = prev.req.task_data.application_id[1])
    /\ [][\A i \in DOMAIN tasks :
              i \in DOMAIN tasks' /\ tasks'[i] = tasks[i]]_vars

\* A task was created for an existing application and then fetched.
C7_Witness ==
    /\ CreateTaskThenGet
    /\ last.resp.kind = "ok"
    /\ prev.req.task_data.application_id[1] \in DOMAIN applications
    /\ last.resp.tasks[1].application_id \in DOMAIN applications

\* Task i of store t refers to no application of store a.
Dangling(t, a, i) == t[i].application_id \notin DOMAIN a

\* C8 as stated: every stored Task refers to an Application that exists in
\* the store, whatever the order of the requests.
C8_TasksReferToExistingApplication ==
    \A i \in DOMAIN tasks : ~Dangling(tasks, applications, i)

\* C8 amended: a stored Task refers to no existing Application only if the
\* POST /tasks that created it named an application that did not exist when
\* it was served; a Task created for an existing Application refers to an
\* existing Application ever after.
C8_DanglingOnlyByUnknownReference ==
    [][\A i \in DOMAIN tasks' :
          Dangling(tasks', applications', i) =>
             \/ i \in DOMAIN tasks /\ Dangling(tasks, applications, i)
             \/ /\ i \notin DOMAIN tasks
                /\ IsOp(last', "POST /tasks")
                /\ last'.req.task_data.application_id
                      = <<tasks'[i].application_id>>
                /\ tasks'[i].application_id \notin DOMAIN applications]_vars

\* Two tasks are stored for an application that was created before them, and
\* requests have been served since.
C8_Witness ==
    /\ Len(tasks) = MaxTasks
    /\ \A i \in DOMAIN tasks : ~Dangling(tasks, applications, i)
    /\ IsOp(prev, "POST /tasks")
    /\ IsOp(last, "GET /applications")

\* The collaborator call the handler of a request is to make: the method of
\* the route with the request's own arguments.
DelegatedCall(req) ==
    CASE req.op = "GET /" ->
            Call("ScholarshipController.get_all_scholarships",
                 [NoArgs EXCEPT !.limit =
                     IF req.limit = <<>> THEN 100 ELSE req.limit[1]])
      [] req.op = "GET /search" ->
            Call("ScholarshipController.search_scholarship",
                 [NoArgs EXCEPT !.query = req.query[1], !.k = 10])
      [] req.op = "POST /applications" ->
            Call("ApplicationController.create_application",
                 [NoArgs EXCEPT !.application_data = req.application_data])
      [] req.op = "GET /applications" ->
            Call("ApplicationController.list_applications", NoArgs)
      [] req.op = "GET /applications/{application_id}" ->
            Call("ApplicationController.get_application_by_id",
                 [NoArgs EXCEPT !.id = req.id])
      [] req.op = "POST /tasks" ->
            Call("ApplicationController.create_task",
                 [NoArgs EXCEPT !.task_data = req.task_data])
      [] req.op = "GET /tasks/{task_id}" ->
            Call("ApplicationController.get_task_by_id",
                 [NoArgs EXCEPT !.id = req.id])

\* C9: a handler that runs makes exactly one collaborator call, the method
\* of its route with the arguments received unchanged, and the response is
\* that call's result or error unchanged.
C9_SingleDelegationUnchanged ==
    (last.req.op # "none" /\ ~ShapeInvalid(last.req)) =>
        /\ Len(calls) = 1
        /\ calls[1].call = DelegatedCall(last.req)
        /\ last.resp = calls[1].resp

\* A limit above 100 was handed on unchanged, and just before that a
\* collaborator error was returned unchanged.
C9_Witness ==
    /\ IsOp(last, "GET /")
    /\ last.req.limit = <<101>>
    /\ calls[1].call.args.limit = 101
    /\ IsOp(prev, "POST /applications")
    /\ prev.resp.kind = "collaborator_error"

GetOps ==
    {"GET /", "GET /search", "GET /applications",
     "GET /applications/{application_id}", "GET /tasks/{task_id}"}

\* C10: both stores only grow: a step that changes a store serves a POST
\* (never one of the five GETs), and every stored Application and Task is
\* still stored, with the same identifier and content, after every step.
C10_StoresOnlyGrow ==
    [][/\ \A i \in DOMAIN applications :
             i \in DOMAIN applications' /\ applications'[i] = applications[i]
       /\ \A i \in DOMAIN tasks :
             i \in DOMAIN tasks' /\ tasks'[i] = tasks[i]
       /\ (applications' # applications \/ tasks' # tasks)
             => last'.req.op \notin GetOps
       /\ (applications' # applications \/ tasks' # tasks)
             => last'.req.op \in {"POST /applications", "POST /tasks"}]_vars

\* Both stores are full and the two last requests were GETs.
C10_Witness ==
    /\ Len(applications) = MaxApplications
    /\ Len(tasks) = MaxTasks
    /\ last.req.op \in GetOps
    /\ prev.req.op \in GetOps
    /\ last.req.op # prev.req.op

====
